---- MODULE Spec2Model ----
(***************************************************************************)
(* Model of src/index.js, the setup-opentap action: one run of main(),     *)
(* from platform resolution to the final `tap package list --installed`.   *)
(* Strings the program parses or concatenates (version, packages,          *)
(* additional-repository, URLs, hosts) are sequences of one-character      *)
(* strings; strings it only passes along (os, architecture, tokens) are    *)
(* plain strings.  An optional value (JavaScript undefined) is <<>>, a     *)
(* present value v is <<v>>.                                               *)
(***************************************************************************)
EXTENDS Integers, Sequences, FiniteSets, TLC

\* ------------------------------------------------------------------------
\* Bounds of the explored inputs

MaxMajor == 10
MaxMinor == 22
MaxPatch == 1

\* ------------------------------------------------------------------------
\* Character-level helpers (JavaScript string primitives)

Digits == <<"0", "1", "2", "3", "4", "5", "6", "7", "8", "9">>

IsDigit(c) == \E d \in 1..10 : Digits[d] = c

DigitVal(c) == (CHOOSE d \in 1..10 : Digits[d] = c) - 1

\* Number(s) for a string of decimal digits
RECURSIVE ToNumber(_)
ToNumber(s) ==
  IF s = <<>> THEN 0
  ELSE 10 * ToNumber(SubSeq(s, 1, Len(s) - 1)) + DigitVal(s[Len(s)])

\* decimal text of a natural number, as String(n) prints it
RECURSIVE DigitsOf(_)
DigitsOf(n) ==
  IF n < 10 THEN <<Digits[n + 1]>>
  ELSE DigitsOf(n \div 10) \o <<Digits[(n % 10) + 1]>>

\* length of the longest run of digits of s that starts at position i
RECURSIVE DigitRun(_, _)
DigitRun(s, i) ==
  IF i <= Len(s) /\ IsDigit(s[i]) THEN 1 + DigitRun(s, i + 1) ELSE 0

\* s.startsWith(p)
StartsWith(s, p) == Len(s) >= Len(p) /\ SubSeq(s, 1, Len(p)) = p

\* position of the first occurrence of character c in s at or after i, else 0
RECURSIVE IndexOf(_, _, _)
IndexOf(s, c, i) ==
  IF i > Len(s) THEN 0
  ELSE IF s[i] = c THEN i
  ELSE IndexOf(s, c, i + 1)

\* s.split(c) for a one-character separator: always at least one item
RECURSIVE Split(_, _)
Split(s, c) ==
  LET k == IndexOf(s, c, 1) IN
    IF k = 0 THEN <<s>>
    ELSE <<SubSeq(s, 1, k - 1)>> \o Split(SubSeq(s, k + 1, Len(s)), c)

\* ------------------------------------------------------------------------
\* Fixed tables and texts of the program

INSTALL_DIRS ==
  [linux   |-> "/opt/tap",
   windows |-> "C:/Program Files/OpenTAP",
   macos   |-> "/Users/runner/Library/OpenTAP"]

DefaultRepositoryUrl ==
  <<"h","t","t","p","s",":","/","/",
    "p","a","c","k","a","g","e","s",".","o","p","e","n","t","a","p",".","i","o">>

HttpsPrefix == <<"h","t","t","p","s",":","/","/">>

HttpPrefix == <<"h","t","t","p">>

ExtractFailedMessage == "Unable to extract zip archive."

MinVersionMessage == "repository-token support requires OpenTAP 9.22.0 or greater."

NullMatchMessage == "Cannot read properties of null (reading 'groups')"

InvalidUrlMessage == "Invalid URL"

\* message text of the error an external step throws when it fails
ErrorOf(op) ==
  CASE op = "downloadTool"      -> "Unexpected HTTP response"
    [] op = "mkdirSync"         -> "ENOENT: no such file or directory, mkdir"
    [] op = "chmod"             -> "The process 'chmod' failed with exit code 1"
    [] op = "addPath"           -> "Unable to find environment variable for file command PATH"
    [] op \in {"write Package Manager.xml", "write AuthenticationSettings.xml",
                "write image.json"}
                                -> "EACCES: permission denied, open"
    [] op = "tap image install" -> "The process 'tap' failed with exit code 1"
    [] op = "tap package list"  -> "The process 'tap' failed with exit code 2"

MinMinor == 21

MinPatch == 1

\* ------------------------------------------------------------------------
\* Pure functions of the program

\* the switch on os.platform()
ResolvedPlatform(platformString) ==
  CASE platformString = "darwin" -> "macos"
    [] platformString = "win32"  -> "windows"
    [] OTHER                     -> "linux"

\* os.arch() == "x32" ? "x86" : "x64"
DefaultArchitecture(archString) == IF archString = "x32" THEN "x86" ELSE "x64"

\* majorMinorPattern.exec(version): <<>> for null, else <<groups>>.
\* /^(?<major>\d+)\.(?<minor>\d+)(\.(?<patch>\d+))?.*/ : each \d+ is greedy and
\* the trailing .* accepts any rest, so every group is a maximal digit run.
MajorMinorPattern(s) ==
  LET a == DigitRun(s, 1)
      b == DigitRun(s, a + 2)
      c == IF a + b + 2 <= Len(s) /\ s[a + b + 2] = "."
           THEN DigitRun(s, a + b + 3) ELSE 0
  IN IF a >= 1 /\ a + 1 <= Len(s) /\ s[a + 1] = "." /\ b >= 1
     THEN <<[major |-> SubSeq(s, 1, a),
             minor |-> SubSeq(s, a + 2, a + b + 1),
             patch |-> IF c >= 1
                       THEN <<SubSeq(s, a + b + 3, a + b + 2 + c)>>
                       ELSE <<>>]>>
     ELSE <<>>

\* mutant: the check simplified to "minor at least 22"
GateRejects_MinorOnly(groups) == ToNumber(groups.minor) < MinMinor + 1

\* minor < 21 || (minor == 21 && !!patch && Number(patch) < 1)
GateRejects(groups) ==
  LET minor == ToNumber(groups.minor)
      patch == groups.patch
  IN minor < MinMinor
     \/ (minor = MinMinor /\ patch # <<>> /\ ToNumber(patch[1]) < MinPatch)

\* first position at or after i holding "/", "?" or "#", else Len(s) + 1
RECURSIVE AuthorityEnd(_, _)
AuthorityEnd(s, i) ==
  IF i > Len(s) \/ s[i] \in {"/", "?", "#"} THEN i ELSE AuthorityEnd(s, i + 1)

\* number of "/" that s holds from position i on
RECURSIVE SlashRun(_, _)
SlashRun(s, i) ==
  IF i <= Len(s) /\ s[i] = "/" THEN 1 + SlashRun(s, i + 1) ELSE 0

\* new URL(u).host: <<>> when the constructor throws, else <<host>>.
\* A URL needs a scheme (text without "/" before the first ":"); after an
\* http or https scheme the slashes are skipped and the host, which must not
\* be empty, runs to the next "/", "?" or "#"; any other scheme has a host
\* only after "//".
URLHost(u) ==
  LET k      == IndexOf(u, ":", 1)
      scheme == SubSeq(u, 1, k - 1)
      http   == scheme \in {HttpPrefix, HttpPrefix \o <<"s">>}
      n      == SlashRun(u, k + 1)
      from   == k + 1 + n
      host   == SubSeq(u, from, AuthorityEnd(u, from) - 1)
  IN IF k <= 1 \/ IndexOf(scheme, "/", 1) # 0 THEN <<>>
     ELSE IF http THEN (IF host = <<>> THEN <<>> ELSE <<host>>)
     ELSE IF n >= 2 THEN <<SubSeq(u, k + 3, AuthorityEnd(u, k + 3) - 1)>>
     ELSE << <<>> >>

\* mutant: an entry for every repository, with or without a token
TokenInfos_NoFilter(repositories) ==
  [i \in 1..Len(repositories) |->
     [AccessToken |-> repositories[i].token, Domain |-> repositories[i].domain]]

\* the TokenInfo entries: one per repository whose token is not empty
RECURSIVE TokenInfos(_)
TokenInfos(repositories) ==
  IF repositories = <<>> THEN <<>>
  ELSE (IF Head(repositories).token # ""
        THEN <<[AccessToken |-> Head(repositories).token,
                Domain      |-> Head(repositories).domain]>>
        ELSE <<>>)
       \o TokenInfos(Tail(repositories))

GetAuthenticationSettings(repositories) ==
  [type   |-> "OpenTap.Authentication.AuthenticationSettings",
   Tokens |-> TokenInfos(repositories)]

GetPackageManagerSettings(repositories) ==
  [type                     |-> "OpenTap.Package.PackageManagerSettings",
   UseLocalPackageCache     |-> TRUE,
   ShowIncompatiblePackages |-> FALSE,
   CheckForUpdates          |-> FALSE,
   Repositories             |-> [i \in 1..Len(repositories) |->
                                   [Url       |-> repositories[i].url,
                                    IsEnabled |-> TRUE]]]

\* { Name: spec.split(":")[0], Version: spec.split(":")[1] }
PackageOf(pkgSpec) ==
  LET parts == Split(pkgSpec, ":")
  IN [Name    |-> parts[1],
      Version |-> IF Len(parts) >= 2 THEN <<parts[2]>> ELSE <<>>]

\* mutant: the manifest names the default index only
ImageOf_DefaultOnly(packages, repositories) ==
  LET pkgSpecs == Split(packages, ",")
  IN [Packages     |-> [i \in 1..Len(pkgSpecs) |-> PackageOf(pkgSpecs[i])],
      Repositories |-> <<DefaultRepositoryUrl>>]

\* the image object built from the packages input and the repositories
ImageOf(packages, repositories) ==
  LET pkgSpecs == Split(packages, ",")
  IN [Packages     |-> [i \in 1..Len(pkgSpecs) |-> PackageOf(pkgSpecs[i])],
      Repositories |-> [i \in 1..Len(repositories) |-> repositories[i].url]]

\* JSON.stringify of one package: a member whose value is undefined is left out
StringifyPackage(p) ==
  IF p.Version = <<>> THEN [Name |-> p.Name]
  ELSE [Name |-> p.Name, Version |-> p.Version[1]]

\* JSON.stringify(image, null, 2), as the document a reader parses back
JSONStringify(image) ==
  [Packages     |-> [i \in 1..Len(image.Packages) |->
                       StringifyPackage(image.Packages[i])],
   Repositories |-> image.Repositories]

\* ------------------------------------------------------------------------
\* The inputs and hosts explored

Chars_Demonstration == <<"D","e","m","o","n","s","t","r","a","t","i","o","n">>

\* a version of the form major.minor[.patch] followed by trailing text
FormatVersion(f) ==
  DigitsOf(f.major) \o <<".">> \o DigitsOf(f.minor)
    \o (IF f.patch = <<>> THEN <<>> ELSE <<".">> \o DigitsOf(f.patch[1]))
    \o f.suffix

VersionForms ==
  [major  : 9..MaxMajor,
   minor  : (MinMinor - 1)..MaxMinor,
   patch  : {<<>>} \cup {<<p>> : p \in 0..MaxPatch},
   suffix : {<<>>, <<"-","r","c">>, <<".","x">>}]

\* version inputs: none, every formatted form, and two texts the pattern
\* does not match
VersionInputs ==
  {<<>>, <<"b","e","t","a">>, <<"9">>} \cup {FormatVersion(f) : f \in VersionForms}

PackagesInputs ==
  {<<>>,
   Chars_Demonstration,
   <<"A",":","1",".","2",".","3",",","B">>,
   <<"A",",">>,
   <<"A",",",",","B">>,
   <<":","1">>,
   <<"A",":","1",":","2">>}

AdditionalRepositoryInputs ==
  {<<>>,
   <<"f","o","o",".","c","o","m","/","r","e","p","o">>,
   <<"h","t","t","p","s",":","/","/","x",".","i","o">>,
   <<"h","t","t","p",":","/","/","y",".","i","o","/","p">>,
   <<"h","t","t","p","b","i","n",".","o","r","g">>}

PlatformStrings == {"linux", "darwin", "win32", "freebsd"}

ArchStrings == {"x64", "x32", "arm64"}

PlatformTags == {"linux", "windows", "macos"}

LinuxHost == [platform |-> "linux", arch |-> "x64"]

\* every host and every os / architecture override, few other inputs
PlatformConfigurations ==
  [host   : [platform : PlatformStrings, arch : ArchStrings],
   inputs : [version                   : {<<>>, <<"9",".","2","1",".","1">>},
             architecture              : {"", "arm64"},
             os                        : {""} \cup PlatformTags,
             packages                  : {<<>>, Chars_Demonstration},
             token                     : {"", "abc"},
             additionalRepository      : {<<>>},
             additionalRepositoryToken : {""}]]

\* every version, packages, repository and token input, on a Linux host
\* without overrides
InputConfigurations ==
  [host   : {LinuxHost},
   inputs : [version                   : VersionInputs,
             architecture              : {""},
             os                        : {""},
             packages                  : PackagesInputs,
             token                     : {"", "abc"},
             additionalRepository      : AdditionalRepositoryInputs,
             additionalRepositoryToken : {"", "t2"}]]

Configurations ==
  PlatformConfigurations \cup InputConfigurations

FileNames == {"Package Manager.xml", "AuthenticationSettings.xml", "image.json"}

\* ------------------------------------------------------------------------
\* State of one run

VARIABLES
  host,                  \* os.platform() and os.arch() of the runner
  inputs,                \* what core.getInput returns for each name
  pc,                    \* the statement main() is at
  platform,              \* main's `platform`
  args,                  \* main's `args`, the query parameters in order
  destDir,               \* main's `destDir`, "" before it is assigned
  settingsDirExists,     \* whether destDir/Settings/ exists
  path,                  \* the directories core.addPath has added
  additionalRepository,  \* main's `additionalRepository`
  repositories,          \* main's `repositories`
  gate,                  \* outcome of the version check: none, accepted, rejected, threw
  files,                 \* content of each file the run may write, <<>> if unwritten
  trace,                 \* the external calls made so far, in order, with their outcome
  failed,                \* whether core.setFailed has been called
  failMsg                \* the message given to core.setFailed

vars ==
  <<host, inputs, pc, platform, args, destDir, settingsDirExists, path,
    additionalRepository, repositories, gate, files, trace, failed, failMsg>>

Init ==
  /\ \E c \in Configurations : host = c.host /\ inputs = c.inputs
  /\ pc = "start"
  /\ platform = "linux"
  /\ args = <<>>
  /\ destDir = ""
  /\ settingsDirExists = FALSE
  /\ path = <<>>
  /\ additionalRepository = <<>>
  /\ repositories = <<>>
  /\ gate = "none"
  /\ files = [f \in FileNames |-> <<>>]
  /\ trace = <<>>
  /\ failed = FALSE
  /\ failMsg = ""

\* an external call and its outcome
Call(op, ok) == trace' = Append(trace, [op |-> op, ok |-> ok])

\* core.setFailed(msg) followed by the end of main (a return, or the catch
\* block of lines 213-215)
Fail(msg) ==
  /\ failed' = TRUE
  /\ failMsg' = msg
  /\ pc' = "done"

Goto(next) ==
  /\ pc' = next
  /\ UNCHANGED <<failed, failMsg>>

\* an external call that throws when it fails
Step(op, ok, next) ==
  /\ Call(op, ok)
  /\ IF ok THEN Goto(next) ELSE Fail(ErrorOf(op))

HasToken == \E i \in 1..Len(repositories) : repositories[i].token # ""

HasVersion == inputs.version # <<>>

\* ------------------------------------------------------------------------
\* The steps of main()

\* lines 80-104: the platform switch and the query parameters
ResolvePlatform ==
  /\ pc = "start"
  /\ platform' = ResolvedPlatform(host.platform)
  /\ args' =
       (IF HasVersion THEN <<[key |-> "version", value |-> inputs.version]>>
        ELSE <<>>)
       \o <<[key   |-> "architecture",
             value |-> IF inputs.architecture # "" THEN inputs.architecture
                       ELSE DefaultArchitecture(host.arch)]>>
       \o <<[key   |-> "os",
             value |-> IF inputs.os # "" THEN inputs.os
                       ELSE ResolvedPlatform(host.platform)]>>
  /\ Goto("download")
  /\ UNCHANGED <<host, inputs, destDir, settingsDirExists, path,
                 additionalRepository, repositories, gate, files, trace>>

\* lines 106-111: await tc.downloadTool(url)
DownloadTool ==
  /\ pc = "download"
  /\ \E ok \in BOOLEAN : Step("downloadTool", ok, "extract")
  /\ UNCHANGED <<host, inputs, platform, args, destDir, settingsDirExists, path,
                 additionalRepository, repositories, gate, files>>

\* lines 115-117 and 58-65: destDir, then tc.extractZip, whose failure is ignored
ExtractPrimary ==
  /\ pc = "extract"
  /\ destDir' = INSTALL_DIRS[platform]
  /\ \E ok \in BOOLEAN :
       /\ Call("extractZip", ok)
       /\ Goto(IF ok THEN "mkdir" ELSE "extractFallback")
  /\ UNCHANGED <<host, inputs, platform, args, settingsDirExists, path,
                 additionalRepository, repositories, gate, files>>

\* mutant: the failure is reported but main does not return
ExtractSecondary_NoReturn ==
  /\ pc = "extractFallback"
  /\ \E ok \in BOOLEAN :
       /\ Call("pwsh", ok)
       /\ pc' = "mkdir"
       /\ failed' = (failed \/ ~ok)
       /\ failMsg' = IF ok THEN failMsg ELSE ExtractFailedMessage
  /\ UNCHANGED <<host, inputs, platform, args, destDir, settingsDirExists, path,
                 additionalRepository, repositories, gate, files>>

\* lines 67-75 and 118-121: pwsh Expand-Archive; when it fails too,
\* extractZip returns false and main reports it and returns
ExtractSecondary ==
  /\ pc = "extractFallback"
  /\ \E ok \in BOOLEAN :
       /\ Call("pwsh", ok)
       /\ IF ok THEN Goto("mkdir") ELSE Fail(ExtractFailedMessage)
  /\ UNCHANGED <<host, inputs, platform, args, destDir, settingsDirExists, path,
                 additionalRepository, repositories, gate, files>>

\* lines 123-125: the archive may or may not have brought a Settings directory
MakeSettingsDir ==
  /\ pc = "mkdir"
  /\ \E exists \in BOOLEAN :
       IF exists
       THEN /\ settingsDirExists' = TRUE
            /\ Goto("chmod")
            /\ UNCHANGED trace
       ELSE \E ok \in BOOLEAN :
              /\ settingsDirExists' = ok
              /\ Step("mkdirSync", ok, "chmod")
  /\ UNCHANGED <<host, inputs, platform, args, destDir, path,
                 additionalRepository, repositories, gate, files>>

\* lines 128-131: chmod +x destDir/tap, except on windows
Chmod ==
  /\ pc = "chmod"
  /\ IF platform # "windows"
     THEN \E ok \in BOOLEAN : Step("chmod", ok, "addPath")
     ELSE Goto("addPath") /\ UNCHANGED trace
  /\ UNCHANGED <<host, inputs, platform, args, destDir, settingsDirExists, path,
                 additionalRepository, repositories, gate, files>>

\* line 134: core.addPath(destDir)
AddPath ==
  /\ pc = "addPath"
  /\ \E ok \in BOOLEAN :
       /\ path' = IF ok THEN Append(path, destDir) ELSE path
       /\ Step("addPath", ok, "packages")
  /\ UNCHANGED <<host, inputs, platform, args, destDir, settingsDirExists,
                 additionalRepository, repositories, gate, files>>

\* the default package index of lines 139-143
DefaultRepository ==
  [url    |-> DefaultRepositoryUrl,
   domain |-> URLHost(DefaultRepositoryUrl)[1],
   token  |-> inputs.token]

\* lines 147-148: the URL the additional-repository input resolves to
ResolveRepositoryUrl(input) ==
  IF ~StartsWith(input, HttpPrefix) THEN HttpsPrefix \o input ELSE input

\* lines 137-154: without a packages input go on to the listing; else build
\* `repositories`; new URL(...) throws on text that is no URL
BuildRepositories ==
  /\ pc = "packages"
  /\ IF inputs.packages = <<>>
     THEN /\ Goto("list")
          /\ UNCHANGED <<additionalRepository, repositories>>
     ELSE IF inputs.additionalRepository = <<>>
     THEN /\ repositories' = <<DefaultRepository>>
          /\ Goto("gate")
          /\ UNCHANGED additionalRepository
     ELSE LET url == ResolveRepositoryUrl(inputs.additionalRepository)
          IN /\ additionalRepository' = url
             /\ IF URLHost(url) = <<>>
                THEN /\ repositories' = <<DefaultRepository>>
                     /\ Fail(InvalidUrlMessage)
                ELSE /\ repositories' =
                          <<DefaultRepository,
                            [url    |-> url,
                             domain |-> URLHost(url)[1],
                             token  |-> inputs.additionalRepositoryToken]>>
                     /\ Goto("writePackageManager")
  /\ UNCHANGED <<host, inputs, platform, args, destDir, settingsDirExists, path,
                 gate, files, trace>>

\* fs.writeFileSync(name, content)
WriteFile(name, content, ok) ==
  files' = IF ok THEN [files EXCEPT ![name] = <<content>>] ELSE files

\* lines 156-159: written only on the additional-repository branch
WritePackageManagerSettings ==
  /\ pc = "writePackageManager"
  /\ \E ok \in BOOLEAN :
       /\ WriteFile("Package Manager.xml",
                    GetPackageManagerSettings(repositories), ok)
       /\ Step("write Package Manager.xml", ok, "gate")
  /\ UNCHANGED <<host, inputs, platform, args, destDir, settingsDirExists, path,
                 additionalRepository, repositories, gate>>

\* mutant: a rejected version is reported but main does not return
VersionGate_NoReturn ==
  /\ pc = "gate"
  /\ IF HasVersion /\ HasToken
     THEN LET match == MajorMinorPattern(inputs.version)
          IN IF match = <<>>
             THEN gate' = "threw" /\ Fail(NullMatchMessage)
             ELSE IF GateRejects(match[1])
             THEN /\ gate' = "rejected"
                  /\ failed' = TRUE
                  /\ failMsg' = MinVersionMessage
                  /\ pc' = "writeAuthentication"
             ELSE gate' = "accepted" /\ Goto("writeAuthentication")
     ELSE UNCHANGED gate /\ Goto("writeAuthentication")
  /\ UNCHANGED <<host, inputs, platform, args, destDir, settingsDirExists, path,
                 additionalRepository, repositories, files, trace>>

\* lines 162-176: with a version and a token, match the version and check it;
\* a null match throws at match.groups
VersionGate ==
  /\ pc = "gate"
  /\ IF HasVersion /\ HasToken
     THEN LET match == MajorMinorPattern(inputs.version)
          IN IF match = <<>>
             THEN gate' = "threw" /\ Fail(NullMatchMessage)
             ELSE IF GateRejects(match[1])
             THEN gate' = "rejected" /\ Fail(MinVersionMessage)
             ELSE gate' = "accepted" /\ Goto("writeAuthentication")
     ELSE UNCHANGED gate /\ Goto("writeAuthentication")
  /\ UNCHANGED <<host, inputs, platform, args, destDir, settingsDirExists, path,
                 additionalRepository, repositories, files, trace>>

\* lines 178-184: written only when some repository has a token
WriteAuthenticationSettings ==
  /\ pc = "writeAuthentication"
  /\ IF HasToken
     THEN \E ok \in BOOLEAN :
            /\ WriteFile("AuthenticationSettings.xml",
                         GetAuthenticationSettings(repositories), ok)
            /\ Step("write AuthenticationSettings.xml", ok, "writeImage")
     ELSE Goto("writeImage") /\ UNCHANGED <<files, trace>>
  /\ UNCHANGED <<host, inputs, platform, args, destDir, settingsDirExists, path,
                 additionalRepository, repositories, gate>>

\* lines 186-201: parse the packages input and write image.json
WriteImage ==
  /\ pc = "writeImage"
  /\ \E ok \in BOOLEAN :
       /\ WriteFile("image.json",
                    JSONStringify(ImageOf(inputs.packages, repositories)), ok)
       /\ Step("write image.json", ok, "install")
  /\ UNCHANGED <<host, inputs, platform, args, destDir, settingsDirExists, path,
                 additionalRepository, repositories, gate>>

\* mutant: the exit code of the install is ignored
ImageInstall_IgnoreFailure ==
  /\ pc = "install"
  /\ \E ok \in BOOLEAN : Call("tap image install", ok) /\ Goto("list")
  /\ UNCHANGED <<host, inputs, platform, args, destDir, settingsDirExists, path,
                 additionalRepository, repositories, gate, files>>

\* mutant: the listing runs only when nothing was installed
ImageInstall_SkipList ==
  /\ pc = "install"
  /\ \E ok \in BOOLEAN : Step("tap image install", ok, "done")
  /\ UNCHANGED <<host, inputs, platform, args, destDir, settingsDirExists, path,
                 additionalRepository, repositories, gate, files>>

\* lines 202-208: tap image install image.json --non-interactive --merge
ImageInstall ==
  /\ pc = "install"
  /\ \E ok \in BOOLEAN : Step("tap image install", ok, "list")
  /\ UNCHANGED <<host, inputs, platform, args, destDir, settingsDirExists, path,
                 additionalRepository, repositories, gate, files>>

\* line 212: tap package list --installed
PackageList ==
  /\ pc = "list"
  /\ \E ok \in BOOLEAN : Step("tap package list", ok, "done")
  /\ UNCHANGED <<host, inputs, platform, args, destDir, settingsDirExists, path,
                 additionalRepository, repositories, gate, files>>

Next ==
  \/ ResolvePlatform
  \/ DownloadTool
  \/ ExtractPrimary
  \/ ExtractSecondary
  \/ MakeSettingsDir
  \/ Chmod
  \/ AddPath
  \/ BuildRepositories
  \/ WritePackageManagerSettings
  \/ VersionGate
  \/ WriteAuthenticationSettings
  \/ WriteImage
  \/ ImageInstall
  \/ PackageList

Spec == Init /\ [][Next]_vars

\* ------------------------------------------------------------------------
\* Vocabulary of the properties

Invoked(op) == \E i \in 1..Len(trace) : trace[i].op = op

Succeeded(op) == \E i \in 1..Len(trace) : trace[i].op = op /\ trace[i].ok

FailedCall(op) == \E i \in 1..Len(trace) : trace[i].op = op /\ ~trace[i].ok

Count(op) == Cardinality({i \in 1..Len(trace) : trace[i].op = op})

\* every call of op has a successful call of earlier before it
Precedes(earlier, op) ==
  \A j \in 1..Len(trace) :
    trace[j].op = op =>
      \E i \in 1..(j - 1) : trace[i].op = earlier /\ trace[i].ok

LastCall == trace[Len(trace)]

TapCommands == {"tap image install", "tap package list"}

Unwritten(name) == files[name] = <<>>

\* a token was given for a repository the inputs configure
TokenConfigured ==
  \/ inputs.token # ""
  \/ inputs.additionalRepository # <<>> /\ inputs.additionalRepositoryToken # ""

\* the input names its scheme: it begins with http:// or https://
HasHttpScheme(s) ==
  \/ StartsWith(s, HttpsPrefix)
  \/ StartsWith(s, <<"h","t","t","p",":","/","/">>)

\* the URL the spec resolves an additional-repository input to
ExpectedRepositoryUrl(input) ==
  IF HasHttpScheme(input) THEN input ELSE HttpsPrefix \o input

\* ------------------------------------------------------------------------
\* C1: extraction tries tc.extractZip first and pwsh only after it failed; the
\* first success wins; the run fails with "Unable to extract zip archive."
\* exactly when both failed, and then nothing later happens: no mkdir, chmod,
\* PATH change, file write or call of the installed executable.
C1_ExtractionFallback ==
  /\ Count("extractZip") <= 1 /\ Count("pwsh") <= 1
  /\ Invoked("pwsh") => FailedCall("extractZip")
  /\ Succeeded("extractZip") => ~Invoked("pwsh")
  /\ (failMsg = ExtractFailedMessage)
       <=> (FailedCall("extractZip") /\ FailedCall("pwsh"))
  /\ (FailedCall("extractZip") /\ FailedCall("pwsh")) =>
       /\ failed /\ pc = "done"
       /\ LastCall = [op |-> "pwsh", ok |-> FALSE]
       /\ ~settingsDirExists /\ path = <<>>
       /\ \A f \in FileNames : Unwritten(f)

C1_BothMechanismsFailed ==
  /\ pc = "done"
  /\ trace = <<[op |-> "downloadTool", ok |-> TRUE],
               [op |-> "extractZip", ok |-> FALSE],
               [op |-> "pwsh", ok |-> FALSE]>>

\* C2: a version the gate rejects ends the run with the minimum-version
\* message; AuthenticationSettings.xml and image.json are never written and
\* the installed executable is never called.
C2_GateRejectionStops ==
  gate = "rejected" =>
    /\ failed /\ pc = "done"
    /\ failMsg = MinVersionMessage
    /\ Unwritten("AuthenticationSettings.xml") /\ Unwritten("image.json")
    /\ ~Invoked("write AuthenticationSettings.xml")
    /\ ~Invoked("write image.json")
    /\ \A c \in TapCommands : ~Invoked(c)

C2_RejectedAfterPackageManagerWritten ==
  /\ gate = "rejected"
  /\ ~Unwritten("Package Manager.xml")

\* the rule of C3 on the components of a version major.minor[.patch]
C3_Rule(f) ==
  \/ f.minor < 21
  \/ f.minor = 21 /\ f.patch # <<>> /\ f.patch[1] < 1

\* the decisions of C3 on every version of the form major.minor[.patch]
C3_Decisions ==
  gate # "none" =>
    \A f \in VersionForms :
      inputs.version = FormatVersion(f) =>
        /\ gate \in {"accepted", "rejected"}
        /\ (gate = "rejected") <=> C3_Rule(f)

\* C3 as written: the gate is evaluated exactly when a version was requested
\* and a token is configured for some repository, and it rejects exactly by
\* the rule on minor and patch.
C3_GateWheneverVersionAndToken ==
  /\ gate # "none" => HasVersion /\ TokenConfigured
  /\ (pc = "done" /\ ~failed /\ HasVersion /\ TokenConfigured) =>
       gate = "accepted"
  /\ C3_Decisions

\* C3 amended: the gate is evaluated exactly when a package list is
\* configured, a version was requested and a token is configured for some
\* repository (and the run gets that far); it rejects exactly by the rule.
C3_GateWheneverPackagesVersionAndToken ==
  /\ gate # "none" =>
       HasVersion /\ TokenConfigured /\ inputs.packages # <<>>
  /\ pc = "writeAuthentication" =>
       ((gate = "accepted") <=> (HasVersion /\ TokenConfigured))
  /\ (pc = "done" /\ ~failed /\ inputs.packages # <<>>
        /\ HasVersion /\ TokenConfigured) =>
       gate = "accepted"
  /\ C3_Decisions

C3_Minor21Patch0Rejected ==
  /\ gate = "rejected"
  /\ \E f \in VersionForms :
       /\ inputs.version = FormatVersion(f)
       /\ f.minor = 21 /\ f.patch = <<0>> /\ f.major = 10

\* the last call is the listing and it succeeded
ListCompleted ==
  trace # <<>> /\ LastCall = [op |-> "tap package list", ok |-> TRUE]

\* C4: a failure of any step sets the failure status with a message and ends
\* the run: after it nothing changes any more, and a run ends either failed
\* or with the listing completed.
C4_FailureIsTerminal ==
  /\ [](failed => pc = "done" /\ failMsg # "")
  /\ [](\A i \in 1..Len(trace) :
          (~trace[i].ok /\ trace[i].op # "extractZip") =>
            failed /\ i = Len(trace))
  /\ [](gate \in {"rejected", "threw"} => failed)
  /\ [][failed => UNCHANGED vars]_vars
  /\ [](pc = "done" => failed \/ ListCompleted)

C4_InstallFailed ==
  /\ failed /\ pc = "done"
  /\ LastCall = [op |-> "tap image install", ok |-> FALSE]

\* C5: a run without failure calls `tap package list --installed` exactly
\* once, as its last step: right after the PATH change without a package
\* list, after a successful `tap image install` with one.  The install is
\* called only with a package list, and always when nothing failed before.
C5_ListOnceAndLast ==
  /\ Count("tap package list") <= 1 /\ Count("tap image install") <= 1
  /\ Invoked("tap image install") => inputs.packages # <<>>
  /\ Invoked("tap package list") =>
       /\ LastCall.op = "tap package list"
       /\ trace[Len(trace) - 1] =
            [op |-> IF inputs.packages = <<>> THEN "addPath"
                    ELSE "tap image install",
             ok |-> TRUE]
  /\ pc = "done" =>
       (Invoked("tap package list") \/ (failed /\ trace # <<>>))
  /\ (pc = "done" /\ ~failed) =>
       /\ Count("tap package list") = 1
       /\ Invoked("tap image install") <=> inputs.packages # <<>>

C5_InstalledThenListed ==
  /\ pc = "done" /\ ~failed
  /\ Succeeded("tap image install")
  /\ ListCompleted

\* C6: Package Manager.xml is written only with an additional repository,
\* AuthenticationSettings.xml only with a token; a written
\* AuthenticationSettings.xml holds one TokenInfo per repository with a token,
\* in order, with its token and the host of its URL, and no other entry.
C6_SettingsFilesWhenConfigured ==
  /\ ~Unwritten("Package Manager.xml") => inputs.additionalRepository # <<>>
  /\ Invoked("write Package Manager.xml") => inputs.additionalRepository # <<>>
  /\ Invoked("write AuthenticationSettings.xml") => TokenConfigured
  /\ ~Unwritten("AuthenticationSettings.xml") =>
       LET tokens   == files["AuthenticationSettings.xml"][1].Tokens
           withTok  == {i \in 1..Len(repositories) : repositories[i].token # ""}
           rank(i)  == Cardinality({j \in withTok : j <= i})
       IN /\ TokenConfigured
          /\ Len(tokens) >= 1
          /\ Len(tokens) = Cardinality(withTok)
          /\ \A i \in withTok :
               tokens[rank(i)] =
                 [AccessToken |-> repositories[i].token,
                  Domain      |-> URLHost(repositories[i].url)[1]]
          /\ repositories[1].token = inputs.token
          /\ Len(repositories) = 2 =>
               repositories[2].token = inputs.additionalRepositoryToken

C6_OnlyAdditionalRepositoryHasToken ==
  /\ ~Unwritten("AuthenticationSettings.xml")
  /\ Len(repositories) = 2
  /\ repositories[1].token = ""
  /\ Len(files["AuthenticationSettings.xml"][1].Tokens) = 1

\* C7: an additional-repository input without a scheme, also one whose host
\* begins with "http", resolves to "https://" + input, one with http:// or
\* https:// to itself; that URL gives the repository's domain, its Package
\* Manager entry and its place in the manifest.
C7_SchemePrepended ==
  /\ additionalRepository # <<>> =>
       additionalRepository = ExpectedRepositoryUrl(inputs.additionalRepository)
  /\ Len(repositories) = 2 =>
       /\ repositories[2].url = ExpectedRepositoryUrl(inputs.additionalRepository)
       /\ repositories[2].domain = URLHost(repositories[2].url)[1]
  /\ ~Unwritten("image.json") =>
       files["image.json"][1].Repositories =
         [i \in 1..Len(repositories) |-> repositories[i].url]
  /\ ~Unwritten("Package Manager.xml") =>
       files["Package Manager.xml"][1].Repositories[2].Url =
         ExpectedRepositoryUrl(inputs.additionalRepository)

\* C8: image.json holds one package per comma-separated item of the packages
\* input, in order, Name the text before the first colon, Version the text
\* after it (absent without a colon), and no Name is empty.
C8_PackagesParsed ==
  ~Unwritten("image.json") =>
    LET packages == files["image.json"][1].Packages
        items    == Split(inputs.packages, ",")
    IN /\ Len(packages) = Len(items)
       /\ \A i \in 1..Len(items) :
            LET k == IndexOf(items[i], ":", 1)
            IN /\ packages[i].Name # <<>>
               /\ packages[i].Name =
                    (IF k = 0 THEN items[i] ELSE SubSeq(items[i], 1, k - 1))
               /\ IF k = 0 THEN "Version" \notin DOMAIN packages[i]
                  ELSE /\ "Version" \in DOMAIN packages[i]
                       /\ packages[i].Version =
                            SubSeq(items[i], k + 1, Len(items[i]))

\* the value of query parameter key, <<>> when args has none
Arg(key) ==
  LET at == {i \in 1..Len(args) : args[i].key = key}
  IN IF at = {} THEN <<>> ELSE <<args[CHOOSE i \in at : TRUE].value>>

\* C9: a given os input is the platform of the whole run: the os parameter of
\* the URL, the installation directory and the chmod decision follow it; a
\* given architecture input is the URL's architecture, else x86 on an x32
\* host and x64 on any other.
C9_OverridesEverywhere ==
  /\ args # <<>> =>
       /\ Arg("os") = <<IF inputs.os # "" THEN inputs.os
                        ELSE ResolvedPlatform(host.platform)>>
       /\ Arg("architecture") =
            <<IF inputs.architecture # "" THEN inputs.architecture
              ELSE IF host.arch = "x32" THEN "x86" ELSE "x64">>
  /\ (inputs.os # "" /\ destDir # "") => destDir = INSTALL_DIRS[inputs.os]
  /\ (inputs.os # "" /\ Invoked("addPath")) =>
       (Invoked("chmod") <=> inputs.os # "windows")

\* C10: the download completes before extraction starts; before any call of
\* the installed executable the Settings directory exists, tap is executable
\* (except on windows) and the installation directory is on the PATH; when the
\* install is called, the settings files the run writes and image.json are
\* written, and image.json lists the default index, then the additional
\* repository if any.
C10_SideEffectOrder ==
  /\ (Invoked("extractZip") \/ Invoked("pwsh")) =>
       trace[1] = [op |-> "downloadTool", ok |-> TRUE]
  /\ \A c \in TapCommands :
       /\ Invoked(c) => settingsDirExists /\ path = <<INSTALL_DIRS[platform]>>
       /\ Precedes("addPath", c)
       /\ platform # "windows" => Precedes("chmod", c)
  /\ Precedes("write image.json", "tap image install")
  /\ inputs.additionalRepository # <<>> =>
       Precedes("write Package Manager.xml", "tap image install")
  /\ TokenConfigured =>
       Precedes("write AuthenticationSettings.xml", "tap image install")
  /\ Invoked("tap image install") =>
       /\ ~Unwritten("image.json")
       /\ inputs.additionalRepository # <<>> => ~Unwritten("Package Manager.xml")
       /\ TokenConfigured => ~Unwritten("AuthenticationSettings.xml")
       /\ files["image.json"][1].Repositories =
            <<DefaultRepositoryUrl>>
              \o (IF inputs.additionalRepository # <<>>
                  THEN <<ExpectedRepositoryUrl(inputs.additionalRepository)>>
                  ELSE <<>>)

C10_InstallWithBothSettingsFiles ==
  /\ Invoked("tap image install")
  /\ ~Unwritten("Package Manager.xml")
  /\ ~Unwritten("AuthenticationSettings.xml")
  /\ ~HasHttpScheme(inputs.additionalRepository)

====
